---- MODULE Spec2Model ----
(***************************************************************************)
(* Verification model of the agentgatepay-examples payment scripts:        *)
(*   - the transaction submitter (read nonce, sign and broadcast the       *)
(*     merchant and the commission transfer) in its two families of        *)
(*     variants,                                                           *)
(*   - the seller's confirmation poller (handle_resource_request),         *)
(*   - the mandate cache file (utils/mandate_storage.py).                  *)
(***************************************************************************)
EXTENDS Integers, Sequences, FiniteSets, TLC

(***************************************************************************)
(* Bounds of the model                                                     *)
(***************************************************************************)
MaxInitNonce == 2
MaxRequests == 2
NumProcs == 2
MaxOps == 2
MaxTime == 1

(***************************************************************************)
(* State of the submitter                                                  *)
(***************************************************************************)
VARIABLES
    variant,          \* "fast" or "seq": which family of scripts runs
    pc,               \* position of the submitter inside the payment tool
    merchant_nonce,   \* 'nonce' of merchant_tx, Unassigned before it is built
    commission_nonce, \* 'nonce' of commission_tx, Unassigned before it is built
    nonceReads,       \* number of get_transaction_count calls of this payment
    signedTx,         \* set of transfers signed by sign_transaction
    broadcast,        \* sequence of transfers accepted by send_raw_transaction
    calls,            \* per step: number of sign / send calls made
    recorded,         \* TRUE when the two hashes are stored for submission
    result,           \* what the tool gives back to its caller
    threw,            \* the step that raised, "none" if no step did
    chainCount,       \* transaction count of the sender on the chain
    rpcCount,         \* transaction count the RPC endpoint answers with
    mined,            \* legs whose transaction is included in a block
    reverted,         \* mined legs whose receipt has status 0 (the transfer reverted)
    nonceAtSubmit,    \* the chain's count when the payment was submitted
    total_usd,        \* the price to pay, in cents
    commission_rate,  \* the commission rate, in 1/10000
    decimals,         \* the token's decimals
    recipient,        \* the merchant address string: is it hex, and of how many bytes
    merchant_atomic,  \* local merchant_atomic, 0 before the split
    commission_atomic,\* local commission_atomic, 0 before the split
    configFetches,    \* calls of get_commission_config
    payloads,         \* the transfer call payloads built so far
    iface,            \* "api" or "mcp": how the script talks to the gateway
    thread,           \* the background thread the payment starts: none, gateway, verify
    threadState,      \* that thread: not_started, running or finished
    joined,           \* Thread.join of the main flow: no, joined or timed_out
    gwResponse,       \* what the submission to the gateway came back with
    outcome,          \* how the payment tool judged it: none, success, failure
    budgetUpdated     \* the cached mandate's budget_remaining was set and saved

subVars == << variant, pc, merchant_nonce, commission_nonce, nonceReads,
              signedTx, broadcast, calls, recorded, result, threw,
              chainCount, rpcCount, mined, reverted, nonceAtSubmit,
              total_usd, commission_rate, decimals, recipient,
              merchant_atomic, commission_atomic, configFetches, payloads,
              iface, thread, threadState, joined, gwResponse, outcome,
              budgetUpdated >>

\* what the payment is asked to do: fixed during the payment
inputVars == << total_usd, commission_rate, decimals, recipient >>
\* the split amounts
splitVars == << merchant_atomic, commission_atomic >>
\* the submission to the gateway and the background thread
tailVars == << iface, thread, threadState, joined, gwResponse, outcome,
               budgetUpdated >>

(***************************************************************************)
(* State of the seller's handler                                           *)
(***************************************************************************)
VARIABLES
    spc,              \* position of the handler: idle, polling, postloop, done
    requests,         \* number of requests received so far
    resource_id,      \* the request's resource_id
    payment_header,   \* the x-payment header as its comma-separated parts
    max_retries,      \* local max_retries
    retry_delay,      \* local retry_delay, seconds
    attempt,          \* the for loop's index
    verification,     \* local verification: the verifier's last answer
    last_error,       \* local last_error
    httpStatus,       \* "status" of the returned dict, 0 before it returns
    pollState,        \* the poller's state: none, awaiting, confirmed, failed
    attemptsMade,     \* verification calls made for this request
    waits,            \* time.sleep calls made for this request
    elapsed,          \* seconds slept for this request
    lastKind,         \* how the last verification call ended
    verifiedFor,      \* the hash the verifier was asked about when it said verified
    notFoundAnswers,  \* answers so far that were {verified: false, error: "Payment not found"}
    deliveries,       \* requests presenting the merchant hash 0xaa that were answered 200
    claim             \* the buyer's claim_resource call behind the request

sellerVars == << spc, requests, resource_id, payment_header, max_retries,
                 retry_delay, attempt, verification, last_error, httpStatus,
                 pollState, attemptsMade, waits, elapsed, lastKind,
                 verifiedFor, notFoundAnswers, deliveries, claim >>

(***************************************************************************)
(* State of the mandate cache and of the processes using it                *)
(***************************************************************************)
VARIABLES
    file,             \* the cache file: missing, truncated or holding a dict
    now,              \* datetime.now().timestamp()
    cpc,              \* per process: position inside save_mandate / get_mandate
    agent_id,         \* per process: the agent_id argument of the running call
    storage,          \* per process: the local dict `storage`
    ret,              \* per process: what the last get_mandate call gave back
    opsDone,          \* per process: calls completed
    lastOp,           \* per process: the call last started
    getFound,         \* per process: the entry the last get_mandate found
    getTime,          \* per process: the time of its expiry comparison
    removed,          \* per process: the last get_mandate wrote the file without the entry
    overlapped,       \* per process: its call ran while another call was running
    racedWrites,      \* some call that wrote the file was an overlapped one
    intended          \* per agent: the entry its last completed save / delete left

cacheVars == << file, now, cpc, agent_id, storage, ret, opsDone, lastOp,
                getFound, getTime, removed, overlapped, racedWrites, intended >>

(***************************************************************************)
(* State of a buyer's session: what its tools keep between their calls     *)
(***************************************************************************)
VARIABLES
    script,           \* the script whose tools run: "2a", "4a" or "3b"
    current_mandate,  \* current_mandate: "none" or the mandate's token
    last_payment,     \* last_payment: "none", "quote", or "paid" once it holds hashes
    stored,           \* the cache file's entry under the agent's id
    sessNow,          \* datetime.now().timestamp() during the session
    issued,           \* issuance calls made to the gateway
    transfers,        \* transfers broadcast by the payment tool
    netCalls,         \* network and chain calls of the last payment tool call
    lastTool,         \* the tool called last
    toolReturn,       \* what it returned: none, ok or error
    toolCalls,        \* tool calls made so far
    svc_hashes,       \* globals merchant_tx_hash, commission_tx_hash of 3b
    submitted         \* the hash pairs sent to agentpay_submit_payment

sessVars == << script, current_mandate, last_payment, stored, sessNow, issued,
               transfers, netCalls, lastTool, toolReturn,
               toolCalls, svc_hashes, submitted >>


(***************************************************************************)
(* PART 1 - TRANSACTION SUBMITTER                                          *)
(*                                                                         *)
(* Two families of variants exist in examples/:                            *)
(*   "fast": 1a, 2a, 3a, 4a, 5, 7_mcp - get_transaction_count is called    *)
(*           once, the commission transaction uses nonce + 1, both         *)
(*           transfers are sent back-to-back;                              *)
(*   "seq":  1, 2, 3, 4, 6, 7_api - the merchant transfer is sent, its     *)
(*           receipt is awaited, and get_transaction_count is called a     *)
(*           second time for the commission transfer.                      *)
(***************************************************************************)


Unassigned == -1
Legs == {"merchant", "commission"}
Variants == {"fast", "seq"}
SubmitSteps == {"sign_merchant", "send_merchant", "sign_commission", "send_commission"}

Tx(leg, n) == [leg |-> leg, nonce |-> n]

\* web3.eth.get_transaction_count(address): the count the endpoint reports
get_transaction_count == rpcCount

(* The amounts. total_usd is counted in cents and commission_rate in       *)
(* 1/10000, so that a USD amount total_usd * commission_rate is an integer *)
(* number of millionths of a dollar.                                       *)
TotalsUsd == {-1, 0, 1, 3, 9, 1000}
CommissionRates == {-50, 0, 10, 50, 5000, 10000, 15000}
Decimals == {2, 6}

\* the merchant address strings: a 20-byte hex address, a 19-byte hex
\* string, a string that is not hex
Recipients ==
    { [hex |-> TRUE, nbytes |-> 20], [hex |-> TRUE, nbytes |-> 19],
      [hex |-> FALSE, nbytes |-> 0] }

RECURSIVE Pow10(_)
Pow10(n) == IF n = 0 THEN 1 ELSE 10 * Pow10(n - 1)

\* int(x) of Python: truncation toward zero, here of n / d
Trunc(n, d) == IF n >= 0 THEN n \div d ELSE -((-n) \div d)

\* commission_usd = total_usd * commission_rate, in millionths of a dollar
commission_usd(total, rate) == total * rate

\* faulty subtraction: the operands are exchanged
merchant_usd_Reversed(total, rate) == commission_usd(total, rate) - total * 10000

\* merchant_usd = total_usd - commission_usd, in millionths of a dollar
merchant_usd(total, rate) == total * 10000 - commission_usd(total, rate)

\* faulty conversion: one unit too many
ExactAtomic_Up(usd, dec) ==
    IF dec >= 6 THEN usd * Pow10(dec - 6) + 1 ELSE Trunc(usd, Pow10(6 - dec)) + 1

\* int(usd * (10 ** decimals)) in exact arithmetic
ExactAtomic(usd, dec) ==
    IF dec >= 6 THEN usd * Pow10(dec - 6) ELSE Trunc(usd, Pow10(6 - dec))

\* The inputs <<total, rate, decimals, leg>> of this model for which the
\* binary floating point product usd * (10 ** decimals) comes out just
\* short of the exact value, so that int() gives one unit less in magnitude
\* (e.g. 0.09 - 0.09 * 0.001 = 0.08990999..., 9.95 * 100 = 994.99999...).
FloatShort ==
    { <<1000, 50, 2, "merchant">>, <<3, 50, 6, "merchant">>,
      <<9, 50, 6, "merchant">>, <<9, 10, 6, "merchant">>,
      <<9, 10, 6, "commission">>, <<1, 15000, 6, "merchant">>,
      <<-1, 15000, 6, "merchant">> }

\* one unit closer to zero
TowardZero(x) == IF x > 0 THEN x - 1 ELSE IF x < 0 THEN x + 1 ELSE x

\* int(usd * (10 ** decimals)) as the floating point evaluation gives it
ToAtomic(usd, total, rate, dec, leg) ==
    IF <<total, rate, dec, leg>> \in FloatShort
    THEN TowardZero(ExactAtomic(usd, dec))
    ELSE ExactAtomic(usd, dec)

\* merchant_atomic = int(merchant_usd * (10 ** decimals))
MerchantAtomic(total, rate, dec) ==
    ToAtomic(merchant_usd(total, rate), total, rate, dec, "merchant")

\* commission_atomic = int(commission_usd * (10 ** decimals))
CommissionAtomic(total, rate, dec) ==
    ToAtomic(commission_usd(total, rate), total, rate, dec, "commission")

Max(a, b) == IF a >= b THEN a ELSE b

\* transfer_sig (4 bytes) + address.rjust(32, b'\x00') + amount.to_bytes(32)
Payload(leg, nbytes) == [leg |-> leg, len |-> 4 + Max(32, nbytes) + 32]

\* building the leg's payload raises: to_bytes(hexstr=...) / bytes.fromhex
\* on a string that is not hex, int.to_bytes on a negative amount
EncodeRaises(leg) ==
    IF leg = "merchant"
    THEN ~recipient.hex \/ merchant_atomic < 0
    ELSE commission_atomic < 0

\* the gateway interface of a script and the background thread its payment
\* starts: 2a starts a thread that submits to the gateway, 4a, 5 and 7_mcp
\* start one that waits for the two receipts, the others start none
Interfaces == {"api", "mcp"}
Threads == {"none", "gateway", "verify"}

\* the scripts that exist: (variant, interface, thread)
Scripts ==
    { <<"seq", "api", "none">>, <<"seq", "mcp", "none">>,
      <<"fast", "api", "none">>, <<"fast", "mcp", "none">>,
      <<"fast", "api", "gateway">>, <<"fast", "mcp", "verify">> }

\* HTTP status codes the gateway may answer with
HttpStatuses == {200, 302, 402}

\* no answer yet; requests raised; an answer with a JSON body, of which the
\* model keeps whether it has an `error` field and whether it has one of the
\* fields the API scripts look for (message, success, paid, status=confirmed)
NoResponse == [kind |-> "none", status |-> 0, has_error |-> FALSE, marker |-> FALSE]
RequestRaised == [kind |-> "raised", status |-> 0, has_error |-> FALSE, marker |-> FALSE]
Responses ==
    [kind : {"response"}, status : HttpStatuses, has_error : BOOLEAN, marker : BOOLEAN]

\* if response.status_code >= 400: return "Failed"; result = response.json();
\* if result.get('message') or result.get('success') or result.get('paid')
\* or result.get('status') == 'confirmed': ... "Success!" else: "Failed"
ApiOutcome(r) ==
    IF r.kind # "response" THEN "failure"
    ELSE IF r.status >= 400 THEN "failure"
    ELSE IF r.marker THEN "success"
    ELSE "failure"

\* call_mcp_tool: if response.status_code != 200: raise; if "error" in
\* result: raise; the submit tool reports failure from its except branch
McpOutcome(r) ==
    IF r.kind # "response" THEN "failure"
    ELSE IF r.status # 200 THEN "failure"
    ELSE IF r.has_error THEN "failure"
    ELSE "success"

GatewayOutcome(r) == IF iface = "api" THEN ApiOutcome(r) ELSE McpOutcome(r)

InitSubmit ==
    /\ variant \in Variants
    /\ iface \in Interfaces
    /\ thread \in Threads
    /\ << variant, iface, thread >> \in Scripts
    /\ threadState = "not_started"
    /\ joined = "no"
    /\ gwResponse = NoResponse
    /\ outcome = "none"
    /\ budgetUpdated = FALSE
    /\ total_usd \in TotalsUsd
    /\ commission_rate \in CommissionRates
    /\ decimals \in Decimals
    /\ recipient \in Recipients
    /\ merchant_atomic = 0
    /\ commission_atomic = 0
    /\ configFetches = 0
    /\ payloads = {}
    /\ pc = "start"
    /\ merchant_nonce = Unassigned
    /\ commission_nonce = Unassigned
    /\ nonceReads = 0
    /\ signedTx = {}
    /\ broadcast = << >>
    /\ calls = [s \in SubmitSteps |-> 0]
    /\ recorded = FALSE
    /\ result = "none"
    /\ threw = "none"
    /\ chainCount \in 0..MaxInitNonce
    /\ rpcCount = chainCount
    /\ mined = {}
    /\ reverted = {}
    /\ nonceAtSubmit = Unassigned

\* faulty handler: the exception is swallowed and success is reported
Abort_Swallow(step) ==
    /\ threw' = step
    /\ result' = "ok"
    /\ pc' = "done"

\* except Exception as e: ... return error_msg / raise Exception(...)
Abort(step) ==
    /\ threw' = step
    /\ result' = "error"
    /\ pc' = "done"

\* commission_config = get_commission_config(); if not commission_config: return "Error..."
FetchCommissionConfig ==
    /\ pc = "start"
    /\ configFetches' = configFetches + 1
    /\ UNCHANGED << inputVars, splitVars, payloads >>
    /\ \/ /\ pc' = "split"
          /\ UNCHANGED << result, threw >>
       \/ /\ pc' = "done"
          /\ result' = "error"
          /\ UNCHANGED threw
    /\ UNCHANGED << variant, merchant_nonce, commission_nonce, nonceReads,
                    signedTx, broadcast, calls, recorded,
                    chainCount, rpcCount, mined, reverted, nonceAtSubmit >>
    /\ UNCHANGED << sellerVars, cacheVars, sessVars >>
    /\ UNCHANGED tailVars

\* commission_usd = ...; merchant_usd = ...; merchant_atomic = int(...);
\* commission_atomic = int(...)
CalculateAmounts ==
    /\ pc = "split"
    /\ merchant_atomic' = MerchantAtomic(total_usd, commission_rate, decimals)
    /\ commission_atomic' = CommissionAtomic(total_usd, commission_rate, decimals)
    /\ pc' = "read_nonce"
    /\ UNCHANGED << variant, merchant_nonce, commission_nonce, nonceReads,
                    signedTx, broadcast, calls, recorded, result, threw,
                    chainCount, rpcCount, mined, reverted, nonceAtSubmit,
                    inputVars, configFetches, payloads >>
    /\ UNCHANGED << sellerVars, cacheVars, sessVars >>
    /\ UNCHANGED tailVars

\* merchant_nonce = web3.eth.get_transaction_count(...); merchant_data = ...;
\* merchant_tx = {'nonce': ...}. fast reads the nonce and then builds
\* merchant_data; seq builds merchant_data first and reads the nonce inside
\* the merchant_tx literal.
ReadNonce ==
    /\ pc = "read_nonce"
    /\ UNCHANGED << inputVars, splitVars, configFetches >>
    /\ \/ /\ ~EncodeRaises("merchant")
          /\ merchant_nonce' = get_transaction_count
          /\ nonceReads' = nonceReads + 1
          /\ nonceAtSubmit' = chainCount
          /\ payloads' = payloads \cup {Payload("merchant", recipient.nbytes)}
          /\ pc' = "sign_merchant"
          /\ UNCHANGED << result, threw >>
       \/ /\ EncodeRaises("merchant")
          /\ Abort("encode_merchant")
          /\ nonceReads' = IF variant = "fast" THEN nonceReads + 1 ELSE nonceReads
          /\ UNCHANGED << merchant_nonce, nonceAtSubmit, payloads >>
       \/ /\ variant = "seq" => ~EncodeRaises("merchant")
          /\ Abort("read_nonce")
          /\ nonceReads' = nonceReads + 1
          /\ UNCHANGED << merchant_nonce, nonceAtSubmit, payloads >>
    /\ UNCHANGED << variant, commission_nonce, signedTx, broadcast,
                    calls, recorded, chainCount, rpcCount, mined, reverted >>
    /\ UNCHANGED << sellerVars, cacheVars, sessVars >>
    /\ UNCHANGED tailVars

\* signed_merchant = account.sign_transaction(merchant_tx)
SignMerchant ==
    /\ pc = "sign_merchant"
    /\ calls' = [calls EXCEPT !["sign_merchant"] = @ + 1]
    /\ \/ /\ signedTx' = signedTx \cup {Tx("merchant", merchant_nonce)}
          /\ pc' = "send_merchant"
          /\ UNCHANGED << result, threw >>
       \/ /\ Abort("sign_merchant")
          /\ UNCHANGED signedTx
    /\ UNCHANGED << variant, merchant_nonce, commission_nonce, nonceReads,
                    broadcast, recorded, chainCount, rpcCount,
                    mined, reverted, nonceAtSubmit >>
    /\ UNCHANGED << sellerVars, cacheVars, sessVars >>
    /\ UNCHANGED tailVars
    /\ UNCHANGED << inputVars, splitVars, configFetches, payloads >>

\* where the submitter goes once the merchant transfer is in the mempool
AfterMerchantSent ==
    IF variant = "seq" THEN "wait_merchant" ELSE "build_commission"

\* tx_hash_merchant = web3.eth.send_raw_transaction(signed_merchant.raw_transaction)
SendMerchant ==
    /\ pc = "send_merchant"
    /\ calls' = [calls EXCEPT !["send_merchant"] = @ + 1]
    /\ \/ /\ broadcast' = Append(broadcast, Tx("merchant", merchant_nonce))
          /\ pc' = AfterMerchantSent
          /\ UNCHANGED << result, threw >>
       \/ /\ Abort("send_merchant")
          /\ UNCHANGED broadcast
    /\ UNCHANGED << variant, merchant_nonce, commission_nonce, nonceReads,
                    signedTx, recorded, chainCount, rpcCount, mined, reverted,
                    nonceAtSubmit >>
    /\ UNCHANGED << sellerVars, cacheVars, sessVars >>
    /\ UNCHANGED tailVars
    /\ UNCHANGED << inputVars, splitVars, configFetches, payloads >>

\* merchant_receipt = web3.eth.wait_for_transaction_receipt(tx, timeout=60)
WaitMerchantReceipt ==
    /\ pc = "wait_merchant"
    /\ \/ /\ "merchant" \in mined
          /\ pc' = "build_commission"
          /\ UNCHANGED << result, threw >>
       \/ Abort("wait_merchant")
    /\ UNCHANGED << variant, merchant_nonce, commission_nonce, nonceReads,
                    signedTx, broadcast, calls, recorded, chainCount,
                    rpcCount, mined, reverted, nonceAtSubmit >>
    /\ UNCHANGED << sellerVars, cacheVars, sessVars >>
    /\ UNCHANGED tailVars
    /\ UNCHANGED << inputVars, splitVars, configFetches, payloads >>

\* commission_tx = {'nonce': merchant_nonce + 1, ...}                  (fast)
BuildCommissionFast ==
    /\ pc = "build_commission"
    /\ variant = "fast"
    /\ UNCHANGED << inputVars, splitVars, configFetches >>
    /\ IF EncodeRaises("commission")
       THEN /\ Abort("encode_commission")
            /\ UNCHANGED << commission_nonce, payloads >>
       ELSE /\ commission_nonce' = merchant_nonce + 1
            /\ payloads' = payloads \cup {Payload("commission", 20)}
            /\ pc' = "sign_commission"
            /\ UNCHANGED << result, threw >>
    /\ UNCHANGED << variant, merchant_nonce, nonceReads, signedTx, broadcast,
                    calls, recorded, chainCount,
                    rpcCount, mined, reverted, nonceAtSubmit >>
    /\ UNCHANGED << sellerVars, cacheVars, sessVars >>
    /\ UNCHANGED tailVars

\* commission_tx = {'nonce': web3.eth.get_transaction_count(...), ...}  (seq)
BuildCommissionSeq ==
    /\ pc = "build_commission"
    /\ variant = "seq"
    /\ UNCHANGED << inputVars, splitVars, configFetches >>
    /\ \/ /\ ~EncodeRaises("commission")
          /\ nonceReads' = nonceReads + 1
          /\ commission_nonce' = get_transaction_count
          /\ payloads' = payloads \cup {Payload("commission", 20)}
          /\ pc' = "sign_commission"
          /\ UNCHANGED << result, threw >>
       \/ /\ ~EncodeRaises("commission")
          /\ nonceReads' = nonceReads + 1
          /\ Abort("build_commission")
          /\ UNCHANGED << commission_nonce, payloads >>
       \/ /\ EncodeRaises("commission")
          /\ Abort("encode_commission")
          /\ UNCHANGED << commission_nonce, payloads, nonceReads >>
    /\ UNCHANGED << variant, merchant_nonce, signedTx, broadcast,
                    calls, recorded, chainCount, rpcCount, mined, reverted,
                    nonceAtSubmit >>
    /\ UNCHANGED << sellerVars, cacheVars, sessVars >>
    /\ UNCHANGED tailVars

\* signed_commission = account.sign_transaction(commission_tx)
SignCommission ==
    /\ pc = "sign_commission"
    /\ calls' = [calls EXCEPT !["sign_commission"] = @ + 1]
    /\ \/ /\ signedTx' = signedTx \cup {Tx("commission", commission_nonce)}
          /\ pc' = "send_commission"
          /\ UNCHANGED << result, threw >>
       \/ /\ Abort("sign_commission")
          /\ UNCHANGED signedTx
    /\ UNCHANGED << variant, merchant_nonce, commission_nonce, nonceReads,
                    broadcast, recorded, chainCount, rpcCount,
                    mined, reverted, nonceAtSubmit >>
    /\ UNCHANGED << sellerVars, cacheVars, sessVars >>
    /\ UNCHANGED tailVars
    /\ UNCHANGED << inputVars, splitVars, configFetches, payloads >>

\* faulty flow: the merchant transfer is sent again after the commission
AfterCommissionSent_Resend == "send_merchant"

\* where the submitter goes once the commission transfer is in the mempool
AfterCommissionSent ==
    IF variant = "seq" THEN "wait_commission"
    ELSE IF thread = "verify" THEN "start_thread"
    ELSE "record"

\* tx_hash_commission = web3.eth.send_raw_transaction(signed_commission.raw_transaction)
SendCommission ==
    /\ pc = "send_commission"
    /\ calls' = [calls EXCEPT !["send_commission"] = @ + 1]
    /\ \/ /\ broadcast' = Append(broadcast, Tx("commission", commission_nonce))
          /\ pc' = AfterCommissionSent
          /\ UNCHANGED << result, threw >>
       \/ /\ Abort("send_commission")
          /\ UNCHANGED broadcast
    /\ UNCHANGED << variant, merchant_nonce, commission_nonce, nonceReads,
                    signedTx, recorded, chainCount, rpcCount, mined, reverted,
                    nonceAtSubmit >>
    /\ UNCHANGED << sellerVars, cacheVars, sessVars >>
    /\ UNCHANGED tailVars
    /\ UNCHANGED << inputVars, splitVars, configFetches, payloads >>

\* commission_receipt = web3.eth.wait_for_transaction_receipt(tx, timeout=60)
WaitCommissionReceipt ==
    /\ pc = "wait_commission"
    /\ \/ /\ "commission" \in mined
          /\ pc' = "record"
          /\ UNCHANGED << result, threw >>
       \/ Abort("wait_commission")
    /\ UNCHANGED << variant, merchant_nonce, commission_nonce, nonceReads,
                    signedTx, broadcast, calls, recorded, chainCount,
                    rpcCount, mined, reverted, nonceAtSubmit >>
    /\ UNCHANGED << sellerVars, cacheVars, sessVars >>
    /\ UNCHANGED tailVars
    /\ UNCHANGED << inputVars, splitVars, configFetches, payloads >>

\* self.last_payment['merchant_tx'] = ...; ['commission_tx'] = ...
\* (global merchant_tx_hash, commission_tx_hash in the function-style scripts)
RecordHashes ==
    /\ pc = "record"
    /\ recorded' = TRUE
    /\ pc' = IF thread = "gateway" THEN "start_thread" ELSE "report"
    /\ UNCHANGED << variant, merchant_nonce, commission_nonce, nonceReads,
                    signedTx, broadcast, calls, result, threw,
                    chainCount, rpcCount, mined, reverted, nonceAtSubmit >>
    /\ UNCHANGED << sellerVars, cacheVars, sessVars >>
    /\ UNCHANGED tailVars
    /\ UNCHANGED << inputVars, splitVars, configFetches, payloads >>

\* gateway_thread.start() in 2a, after the hashes are recorded;
\* verify_thread.start() in 4a, 5 and 7_mcp, before they are recorded
StartThread ==
    /\ pc = "start_thread"
    /\ threadState' = "running"
    /\ pc' = IF thread = "gateway" THEN "wait_receipts" ELSE "record"
    /\ UNCHANGED << variant, merchant_nonce, commission_nonce, nonceReads,
                    signedTx, broadcast, calls, recorded, result, threw,
                    chainCount, rpcCount, mined, reverted, nonceAtSubmit >>
    /\ UNCHANGED << inputVars, splitVars, configFetches, payloads >>
    /\ UNCHANGED << iface, thread, joined, gwResponse, outcome, budgetUpdated >>
    /\ UNCHANGED << sellerVars, cacheVars, sessVars >>

\* the thread of 2a: response = requests.get(url, headers, timeout=90);
\* gateway_result["response"] = response, or gateway_result["error"] = str(e)
submit_to_gateway ==
    /\ thread = "gateway"
    /\ threadState = "running"
    /\ gwResponse' \in Responses \cup {RequestRaised}
    /\ threadState' = "finished"
    /\ UNCHANGED << variant, pc, merchant_nonce, commission_nonce, nonceReads,
                    signedTx, broadcast, calls, recorded, result, threw,
                    chainCount, rpcCount, mined, reverted, nonceAtSubmit >>
    /\ UNCHANGED << inputVars, splitVars, configFetches, payloads >>
    /\ UNCHANGED << iface, thread, joined, outcome, budgetUpdated >>
    /\ UNCHANGED << sellerVars, cacheVars, sessVars >>

\* the thread of 4a, 5 and 7_mcp: it waits for the two receipts and prints;
\* an exception of the wait is caught and printed
verify_locally ==
    /\ thread = "verify"
    /\ threadState = "running"
    /\ threadState' = "finished"
    /\ UNCHANGED << variant, pc, merchant_nonce, commission_nonce, nonceReads,
                    signedTx, broadcast, calls, recorded, result, threw,
                    chainCount, rpcCount, mined, reverted, nonceAtSubmit >>
    /\ UNCHANGED << inputVars, splitVars, configFetches, payloads >>
    /\ UNCHANGED << iface, thread, joined, gwResponse, outcome, budgetUpdated >>
    /\ UNCHANGED << sellerVars, cacheVars, sessVars >>

\* 2a, main flow while the thread runs: try: wait_for_transaction_receipt
\* (merchant); wait_for_transaction_receipt(commission) except: print
WaitReceipts ==
    /\ pc = "wait_receipts"
    /\ pc' = "join"
    /\ UNCHANGED << variant, merchant_nonce, commission_nonce, nonceReads,
                    signedTx, broadcast, calls, recorded, result, threw,
                    chainCount, rpcCount, mined, reverted, nonceAtSubmit >>
    /\ UNCHANGED << inputVars, splitVars, configFetches, payloads >>
    /\ UNCHANGED tailVars
    /\ UNCHANGED << sellerVars, cacheVars, sessVars >>

\* 2a: gateway_thread.join(timeout=90): it returns when the thread has
\* finished, or after 90 seconds with the thread still running
JoinThread ==
    /\ pc = "join"
    /\ joined' = IF threadState = "finished" THEN "joined" ELSE "timed_out"
    /\ pc' = "evaluate"
    /\ UNCHANGED << variant, merchant_nonce, commission_nonce, nonceReads,
                    signedTx, broadcast, calls, recorded, result, threw,
                    chainCount, rpcCount, mined, reverted, nonceAtSubmit >>
    /\ UNCHANGED << inputVars, splitVars, configFetches, payloads >>
    /\ UNCHANGED << iface, thread, threadState, gwResponse, outcome,
                    budgetUpdated >>
    /\ UNCHANGED << sellerVars, cacheVars, sessVars >>

\* the return of the signing tool in the scripts that submit to the gateway
\* from a second tool: the two hashes ("Payment executed! ...")
Report ==
    /\ pc = "report"
    /\ result' = "ok"
    /\ pc' = "submit"
    /\ UNCHANGED << variant, merchant_nonce, commission_nonce, nonceReads,
                    signedTx, broadcast, calls, recorded, threw,
                    chainCount, rpcCount, mined, reverted, nonceAtSubmit >>
    /\ UNCHANGED << sellerVars, cacheVars, sessVars >>
    /\ UNCHANGED tailVars
    /\ UNCHANGED << inputVars, splitVars, configFetches, payloads >>

\* response = requests.get(url, headers=headers) in the API scripts,
\* call_mcp_tool("agentpay_submit_payment", ...) in the MCP scripts
SubmitToGateway ==
    /\ pc = "submit"
    /\ gwResponse' \in Responses \cup {RequestRaised}
    /\ pc' = "evaluate"
    /\ UNCHANGED << variant, merchant_nonce, commission_nonce, nonceReads,
                    signedTx, broadcast, calls, recorded, result, threw,
                    chainCount, rpcCount, mined, reverted, nonceAtSubmit >>
    /\ UNCHANGED << inputVars, splitVars, configFetches, payloads >>
    /\ UNCHANGED << iface, thread, threadState, joined, outcome, budgetUpdated >>
    /\ UNCHANGED << sellerVars, cacheVars, sessVars >>

\* the tool judges the answer and returns "Success! ..." or "Failed: ...";
\* on success it asks /mandates/verify for the budget and, when that
\* answers, sets current_mandate['budget_remaining'] and calls save_mandate
EvaluateResponse ==
    /\ pc = "evaluate"
    /\ outcome' = GatewayOutcome(gwResponse)
    /\ budgetUpdated' \in (IF outcome' = "success" THEN BOOLEAN ELSE {FALSE})
    /\ result' = IF outcome' = "success" THEN "ok" ELSE "error"
    /\ pc' = "done"
    /\ UNCHANGED << variant, merchant_nonce, commission_nonce, nonceReads,
                    signedTx, broadcast, calls, recorded, threw,
                    chainCount, rpcCount, mined, reverted, nonceAtSubmit >>
    /\ UNCHANGED << inputVars, splitVars, configFetches, payloads >>
    /\ UNCHANGED << iface, thread, threadState, joined, gwResponse >>
    /\ UNCHANGED << sellerVars, cacheVars, sessVars >>

(* The chain: a broadcast transfer is included when its nonce is the       *)
(* sender's next one.                                                      *)
MineTx ==
    /\ \E i \in 1..Len(broadcast) :
          /\ broadcast[i].leg \notin mined
          /\ broadcast[i].nonce = chainCount
          /\ mined' = mined \cup {broadcast[i].leg}
          /\ \/ reverted' = reverted
             \/ reverted' = reverted \cup {broadcast[i].leg}
    /\ chainCount' = chainCount + 1
    /\ UNCHANGED << variant, pc, merchant_nonce, commission_nonce, nonceReads,
                    signedTx, broadcast, calls, recorded, result,
                    threw, rpcCount, nonceAtSubmit >>
    /\ UNCHANGED << sellerVars, cacheVars, sessVars >>
    /\ UNCHANGED tailVars
    /\ UNCHANGED << inputVars, splitVars, configFetches, payloads >>

(* The RPC endpoint's node catches up with the chain.                      *)
RpcSync ==
    /\ rpcCount < chainCount
    /\ rpcCount' = chainCount
    /\ UNCHANGED << variant, pc, merchant_nonce, commission_nonce, nonceReads,
                    signedTx, broadcast, calls, recorded, result,
                    threw, chainCount, mined, reverted, nonceAtSubmit >>
    /\ UNCHANGED << sellerVars, cacheVars, sessVars >>
    /\ UNCHANGED tailVars
    /\ UNCHANGED << inputVars, splitVars, configFetches, payloads >>

NextSubmit ==
    \/ FetchCommissionConfig
    \/ CalculateAmounts
    \/ ReadNonce
    \/ SignMerchant
    \/ SendMerchant
    \/ WaitMerchantReceipt
    \/ BuildCommissionFast
    \/ BuildCommissionSeq
    \/ SignCommission
    \/ SendCommission
    \/ WaitCommissionReceipt
    \/ RecordHashes
    \/ StartThread
    \/ submit_to_gateway
    \/ verify_locally
    \/ WaitReceipts
    \/ JoinThread
    \/ Report
    \/ SubmitToGateway
    \/ EvaluateResponse
    \/ MineTx
    \/ RpcSync


(***************************************************************************)
(* PART 2 - SELLER: handle_resource_request AND ITS CONFIRMATION POLLER    *)
(*                                                                         *)
(* Amounts are counted in units of 0.00001 USD, so that the catalog        *)
(* prices, the 0.5% commission and the $0.01 tolerance are all integers.   *)
(* examples/2b_api_seller_agent.py and examples/4b_mcp_seller_agent.py     *)
(* hold the same handler; 2b is the one transcribed.                       *)
(***************************************************************************)

\* self.catalog: resource id -> price_usd
Catalog == {"research-paper-2025", "market-data-api", "ai-model-training-dataset"}
ResourceIds == Catalog \cup {"no-such-resource"}

price_usd(rid) ==
    CASE rid = "research-paper-2025" -> 1000
      [] rid = "market-data-api" -> 500000
      [] rid = "ai-model-training-dataset" -> 2500000

OneDollar == 100000
Tolerance == 1000

\* resource['price_usd'] * (1 - COMMISSION_RATE), COMMISSION_RATE = 0.005
expected_merchant_amount(rid) == price_usd(rid) - (price_usd(rid) * 5) \div 1000

Abs(x) == IF x < 0 THEN -x ELSE x

\* The pairs <<price, paid>> at exactly $0.01 from the expected amount for
\* which the binary floating point value of abs(paid - expected) comes out
\* above the double 0.01 (4.985 - 4.975, 24.885 - 24.875, 24.875 - 24.865).
FloatAboveTolerance ==
    { <<500000, 498500>>, <<2500000, 2488500>>, <<2500000, 2486500>> }

\* faulty comparison: a tolerance of $0.10
AmountMismatch_Wide(rid, paid) ==
    Abs(paid - expected_merchant_amount(rid)) > 10 * Tolerance

\* abs(paid_amount - expected_merchant_amount) > 0.01
AmountMismatch(rid, paid) ==
    LET d == Abs(paid - expected_merchant_amount(rid))
    IN  \/ d > Tolerance
        \/ d = Tolerance /\ <<price_usd(rid), paid>> \in FloatAboveTolerance

Hashes == {"0xaa", "0xbb"}
\* the header's parts after split(','); << >> stands for no header at all;
\* the two hashes of a pair are those of two different transactions
Headers ==
    { << >> } \cup { <<h>> : h \in Hashes }
              \cup { h \in Hashes \X Hashes : h[1] # h[2] }
              \cup { <<"0xaa", "0xbb", "0xaa">> }

\* amounts the verifier may report, around each resource's expected amount
AmountsAround(rid) ==
    LET e == expected_merchant_amount(rid)
    IN  { a \in { 0, e, e + Tolerance, e + Tolerance + 1, e - Tolerance,
                  e - Tolerance - 1, e - Tolerance + 1, price_usd(rid) } : a >= 0 }
PaidAmounts == UNION { AmountsAround(rid) : rid \in Catalog }

Statuses == {"pending", "confirmed", "failed", "none"}
Errors == {"none", "Payment not found", "other"}

\* verification = None
NoVerification ==
    [present |-> FALSE, verified |-> FALSE, status |-> "none", error |-> "none",
     has_amount |-> FALSE, amount_usd |-> 0]

\* The verifier's answers (ConfirmationResult). amount_usd is read only from
\* an answer with verified = true, so the others carry none.
Answers ==
    { [present |-> TRUE, verified |-> FALSE, status |-> st, error |-> er,
       has_amount |-> FALSE, amount_usd |-> 0] : st \in Statuses, er \in Errors }
    \cup
    { [present |-> TRUE, verified |-> TRUE, status |-> st, error |-> "none",
       has_amount |-> TRUE, amount_usd |-> a] : st \in Statuses, a \in PaidAmounts }
    \cup
    { [present |-> TRUE, verified |-> TRUE, status |-> st, error |-> "none",
       has_amount |-> FALSE, amount_usd |-> 0] : st \in Statuses }

\* faulty budget: twelve attempts whatever the price
MaxRetriesFor_Flat(rid) == 12

\* if resource['price_usd'] < 1.0: max_retries = 6 else: max_retries = 12
MaxRetriesFor(rid) == IF price_usd(rid) < OneDollar THEN 6 ELSE 12

\* retry_delay = 10 (both branches)
RetryDelayFor(rid) == 10

\* faulty budget test: the last two attempts are given up
CanRetry_Short(a, m) == a < m - 2

\* ... and attempt < max_retries - 1
CanRetry(a, m) == a < m - 1

\* retry_delay = min(retry_delay * 1.5, 10) for payments of $1 or more
NextRetryDelay(rid, d) ==
    IF price_usd(rid) >= OneDollar
    THEN (IF (d * 3) \div 2 < 10 THEN (d * 3) \div 2 ELSE 10)
    ELSE d

\* verification.get('error', 'Unknown verification error')
ErrorOf(v) == IF v.error = "none" THEN "Unknown verification error" ELSE v.error

\* the answer of the spec's scenario: {verified: false, error: "Payment not found"}
IsNotFoundAnswer(v) ==
    /\ v.present /\ ~v.verified
    /\ v.error = "Payment not found" /\ v.status = "none"

InitSeller ==
    /\ spc = "idle"
    /\ requests = 0
    /\ resource_id = "no-such-resource"
    /\ payment_header = << >>
    /\ max_retries = 0
    /\ retry_delay = 0
    /\ attempt = 0
    /\ verification = NoVerification
    /\ last_error = "none"
    /\ httpStatus = 0
    /\ pollState = "none"
    /\ attemptsMade = 0
    /\ waits = 0
    /\ elapsed = 0
    /\ lastKind = "none"
    /\ verifiedFor = "none"
    /\ notFoundAnswers = 0
    /\ deliveries = 0
    /\ claim = "none"

\* the status handle_resource_request returns before any verification call:
\* 404 unknown resource, 402 no header, 400 header not of two parts, 0 otherwise
EarlyStatus(rid, header) ==
    IF rid \notin Catalog THEN 404
    ELSE IF Len(header) = 0 THEN 402
    ELSE IF Len(header) # 2 THEN 400
    ELSE 0

\* the buyer's claim_resource waits at most 30 seconds for the answer:
\* requests.get(..., headers={"x-payment": ...}, timeout=30)
ClaimTimeout == 30

\* claim_resource sends a header of two parts; it reports the resource as
\* received on status 200 and a failure on any other status
ClaimReport(status) == IF status = 200 THEN "received" ELSE "failed"

\* the state of the claim_resource call when the handler has looked at the
\* request: none when the request is not one of claim_resource
ClaimAfterEarly(rid, header) ==
    IF Len(header) # 2 THEN "none"
    ELSE IF EarlyStatus(rid, header) # 0 THEN ClaimReport(EarlyStatus(rid, header))
    ELSE "waiting"

\* handle_resource_request up to the start of the retry loop
HandleResourceRequest ==
    /\ spc \in {"idle", "done"}
    /\ requests < MaxRequests
    /\ requests' = requests + 1
    /\ \E rid \in ResourceIds, header \in Headers :
          /\ resource_id' = rid
          /\ payment_header' = header
          /\ httpStatus' = EarlyStatus(rid, header)
          /\ claim' = ClaimAfterEarly(rid, header)
          /\ IF EarlyStatus(rid, header) # 0
             THEN /\ spc' = "done"
                  /\ pollState' = "none"
                  /\ max_retries' = 0
                  /\ retry_delay' = 0
             ELSE /\ spc' = "polling"
                  /\ pollState' = "awaiting"
                  /\ max_retries' = MaxRetriesFor(rid)
                  /\ retry_delay' = RetryDelayFor(rid)
    /\ attempt' = 0
    /\ verification' = NoVerification
    /\ last_error' = "none"
    /\ attemptsMade' = 0
    /\ waits' = 0
    /\ elapsed' = 0
    /\ lastKind' = "none"
    /\ verifiedFor' = "none"
    /\ notFoundAnswers' = 0
    /\ UNCHANGED deliveries
    /\ UNCHANGED << subVars, cacheVars, sessVars >>

\* tx_hash_merchant = parts[0].strip(): the hash handed to the verifier
tx_hash_merchant == payment_header[1]

\* time.sleep(retry_delay) and on to the next iteration
SleepAndContinue ==
    /\ waits' = waits + 1
    /\ elapsed' = elapsed + retry_delay
    /\ attempt' = attempt + 1
    /\ spc' = "polling"
    /\ pollState' = "awaiting"
    /\ claim' = IF claim = "waiting" /\ elapsed' >= ClaimTimeout
                THEN "timed_out" ELSE claim

\* break
BreakLoop(state) ==
    /\ spc' = "postloop"
    /\ pollState' = state
    /\ UNCHANGED << waits, elapsed, attempt, retry_delay, claim >>

\* faulty test: verified counts only when the status is not 'pending'
IsVerified_Strict(v) == v.verified /\ v.status # "pending"

\* if verification.get('verified'):
IsVerified(v) == v.verified

\* faulty test: every unverified answer is retried while budget remains
ShouldRetry_Always(v, a, m) == CanRetry(a, m)

\* elif status == 'pending' and attempt < max_retries - 1
\* elif error == 'Payment not found' and attempt < max_retries - 1
ShouldRetry(v, a, m) ==
    \/ v.status = "pending" /\ CanRetry(a, m)
    \/ v.error = "Payment not found" /\ CanRetry(a, m)

\* one iteration of the loop in which the verifier answers v
VerifyAnswers(v) ==
    /\ verification' = v
    /\ lastKind' = "response"
    /\ notFoundAnswers' = notFoundAnswers + (IF IsNotFoundAnswer(v) THEN 1 ELSE 0)
    /\ IF IsVerified(v)
       THEN /\ BreakLoop("confirmed")
            /\ verifiedFor' = tx_hash_merchant
            /\ UNCHANGED last_error
       ELSE IF ShouldRetry(v, attempt, max_retries)
       THEN /\ SleepAndContinue
            /\ retry_delay' = IF v.status = "pending"
                              THEN NextRetryDelay(resource_id, retry_delay)
                              ELSE retry_delay
            /\ UNCHANGED << last_error, verifiedFor >>
       ELSE /\ BreakLoop("failed")
            /\ last_error' = ErrorOf(v)
            /\ UNCHANGED verifiedFor

\* one iteration of the loop in which the verification call raises
VerifyRaises ==
    /\ lastKind' = "exception"
    /\ last_error' = "exception"
    /\ UNCHANGED << verification, verifiedFor, notFoundAnswers >>
    /\ IF CanRetry(attempt, max_retries)
       THEN /\ SleepAndContinue
            /\ UNCHANGED retry_delay
       ELSE BreakLoop("failed")

\* for attempt in range(max_retries): try: verification = ...verify(tx_hash_merchant)
VerifyAttempt ==
    /\ spc = "polling"
    /\ attempt < max_retries
    /\ attemptsMade' = attemptsMade + 1
    /\ \/ \E v \in Answers : VerifyAnswers(v)
       \/ VerifyRaises
    /\ UNCHANGED << requests, resource_id, payment_header, max_retries,
                    httpStatus, deliveries >>
    /\ UNCHANGED << subVars, cacheVars, sessVars >>

\* paid_amount = float(verification.get('amount_usd', 0))
paid_amount(v) == IF v.has_amount THEN v.amount_usd ELSE 0

\* the status returned after the loop: 403 not verified, 403 amount mismatch, 200
FinalStatus(rid, v) ==
    IF ~v.present \/ ~v.verified THEN 403
    ELSE IF AmountMismatch(rid, paid_amount(v)) THEN 403
    ELSE 200

\* handle_resource_request after the retry loop
Respond ==
    /\ spc = "postloop"
    /\ httpStatus' = FinalStatus(resource_id, verification)
    /\ deliveries' = IF httpStatus' = 200 /\ tx_hash_merchant = "0xaa"
                     THEN deliveries + 1
                     ELSE deliveries
    /\ claim' = IF claim = "waiting" THEN ClaimReport(httpStatus') ELSE claim
    /\ spc' = "done"
    /\ UNCHANGED << requests, resource_id, payment_header, max_retries,
                    retry_delay, attempt, verification, last_error, pollState,
                    attemptsMade, waits, elapsed, lastKind, verifiedFor,
                    notFoundAnswers >>
    /\ UNCHANGED << subVars, cacheVars, sessVars >>

NextSeller ==
    \/ HandleResourceRequest
    \/ VerifyAttempt
    \/ Respond

(***************************************************************************)
(* PART 3 - MANDATE CACHE FILE (utils/mandate_storage.py)                  *)
(*                                                                         *)
(* Several processes (runs of the example scripts) share the one cache     *)
(* file. _load_storage reads it in one step; _save_storage (write_text)    *)
(* opens it for writing, which empties it, and then writes the new content.*)
(***************************************************************************)

Procs == 1..NumProcs
Agents == {"agent-1", "agent-2"}
Tokens == {"tokA", "tokB"}

\* Python's None in a numeric field
Null == -1

\* an agent_id that is not a key of the dict
NoEntry ==
    [present |-> FALSE, mandate_token |-> "", expires_at |-> Null,
     budget_remaining |-> Null, budget_usd |-> Null, saved_at |-> Null]

\* {}
EmptyStorage == [a \in Agents |-> NoEntry]

\* the mandate_data dicts handed to save_mandate
Mandate(tok, exp, rem) ==
    [mandate_token |-> tok, expires_at |-> exp, budget_remaining |-> rem,
     budget_usd |-> 9, purpose |-> "research"]
MandateData ==
    { Mandate("tokA", 0, 5), Mandate("tokB", 1, 0), Mandate("tokA", Null, Null) }

\* mandate_data.get('budget_remaining') or mandate_data.get('budget_usd')
BudgetOr(remaining, usd) ==
    IF remaining = Null \/ remaining = 0 THEN usd ELSE remaining

\* the dict save_mandate stores under storage[agent_id]
StoredEntry(d, t) ==
    [present |-> TRUE,
     mandate_token |-> d.mandate_token,
     expires_at |-> d.expires_at,
     budget_remaining |-> BudgetOr(d.budget_remaining, d.budget_usd),
     budget_usd |-> d.budget_usd,
     saved_at |-> t]

\* faulty assignment: the entry is put into a fresh dict
SetEntry_Fresh(loaded, a, e) == [EmptyStorage EXCEPT ![a] = e]

\* storage[agent_id] = {...}: the key's entry is replaced, the others stay
SetEntry(loaded, a, e) == [loaded EXCEPT ![a] = e]

\* faulty loader: the file's content is ignored
LoadStorage_Blank(f) == EmptyStorage

\* _load_storage: {} when the file does not exist or does not parse
LoadStorage(f) == IF f.state = "ok" THEN f.data ELSE EmptyStorage

\* faulty test: the comparison is reversed
IsExpired_Reversed(t, expires_at) == t < expires_at

\* if datetime.now().timestamp() > expires_at
IsExpired(t, expires_at) == t > expires_at

NoReturn == [kind |-> "none", mandate |-> NoEntry]

InitCache ==
    /\ file = [state |-> "missing", data |-> EmptyStorage]
    /\ now = 0
    /\ cpc = [p \in Procs |-> "idle"]
    /\ agent_id = [p \in Procs |-> "agent-1"]
    /\ storage = [p \in Procs |-> EmptyStorage]
    /\ ret = [p \in Procs |-> NoReturn]
    /\ opsDone = [p \in Procs |-> 0]
    /\ lastOp = [p \in Procs |-> "none"]
    /\ getFound = [p \in Procs |-> NoEntry]
    /\ getTime = [p \in Procs |-> 0]
    /\ removed = [p \in Procs |-> FALSE]
    /\ overlapped = [p \in Procs |-> FALSE]
    /\ racedWrites = FALSE
    /\ intended = EmptyStorage

Tick ==
    /\ now < MaxTime
    /\ now' = now + 1
    /\ UNCHANGED << file, cpc, agent_id, storage, ret, opsDone, lastOp,
                    getFound, getTime, removed, overlapped, racedWrites, intended >>
    /\ UNCHANGED << subVars, sellerVars, sessVars >>

\* calls of save_mandate / get_mandate started so far, over all processes
CallsStarted ==
    LET Sum[n \in 0..NumProcs] ==
            IF n = 0 THEN 0
            ELSE Sum[n - 1] + opsDone[n] + (IF cpc[n] # "idle" THEN 1 ELSE 0)
    IN  Sum[NumProcs]

\* the other processes that are inside a call
Running(p) == { q \in Procs \ {p} : cpc[q] # "idle" }

\* a call starts: what the process remembers of its previous call is reset
StartCall(p, a, op) ==
    /\ cpc[p] = "idle"
    /\ CallsStarted < MaxOps
    /\ agent_id' = [agent_id EXCEPT ![p] = a]
    /\ lastOp' = [lastOp EXCEPT ![p] = op]
    /\ overlapped' = [q \in Procs |->
                         IF q = p THEN Running(p) # {}
                         ELSE IF q \in Running(p) THEN TRUE ELSE overlapped[q]]
    /\ removed' = [removed EXCEPT ![p] = FALSE]

\* save_mandate: storage = _load_storage(); storage[agent_id] = {...}
SaveMandateLoad(p) ==
    \E a \in Agents, d \in MandateData :
        /\ StartCall(p, a, "save")
        /\ storage' = [storage EXCEPT
                         ![p] = SetEntry(LoadStorage(file), a, StoredEntry(d, now))]
        /\ cpc' = [cpc EXCEPT ![p] = "save_open"]
        /\ ret' = [ret EXCEPT ![p] = NoReturn]
        /\ getFound' = [getFound EXCEPT ![p] = NoEntry]
        /\ UNCHANGED << file, now, opsDone, getTime, racedWrites, intended >>
        /\ UNCHANGED << subVars, sellerVars, sessVars >>

\* get_mandate up to its return or its call of _save_storage
GetMandateLoad(p) ==
    \E a \in Agents :
        LET loaded == LoadStorage(file)
            mandate == loaded[a]
        IN  /\ StartCall(p, a, "get")
            /\ getFound' = [getFound EXCEPT ![p] = mandate]
            /\ getTime' = [getTime EXCEPT ![p] = now]
            /\ IF ~mandate.present
               THEN \* if agent_id not in storage: return None
                    /\ ret' = [ret EXCEPT ![p] = [kind |-> "None", mandate |-> NoEntry]]
                    /\ cpc' = [cpc EXCEPT ![p] = "idle"]
                    /\ opsDone' = [opsDone EXCEPT ![p] = @ + 1]
                    /\ storage' = [storage EXCEPT ![p] = EmptyStorage]
               ELSE IF mandate.expires_at = Null
               THEN \* float > None raises TypeError
                    /\ ret' = [ret EXCEPT ![p] = [kind |-> "raised", mandate |-> NoEntry]]
                    /\ cpc' = [cpc EXCEPT ![p] = "idle"]
                    /\ opsDone' = [opsDone EXCEPT ![p] = @ + 1]
                    /\ storage' = [storage EXCEPT ![p] = EmptyStorage]
               ELSE IF IsExpired(now, mandate.expires_at)
               THEN \* del storage[agent_id]; _save_storage(storage)
                    /\ storage' = [storage EXCEPT ![p] = [loaded EXCEPT ![a] = NoEntry]]
                    /\ cpc' = [cpc EXCEPT ![p] = "get_open"]
                    /\ ret' = [ret EXCEPT ![p] = NoReturn]
                    /\ UNCHANGED opsDone
               ELSE \* return mandate
                    /\ ret' = [ret EXCEPT ![p] = [kind |-> "mandate", mandate |-> mandate]]
                    /\ cpc' = [cpc EXCEPT ![p] = "idle"]
                    /\ opsDone' = [opsDone EXCEPT ![p] = @ + 1]
                    /\ storage' = [storage EXCEPT ![p] = EmptyStorage]
            /\ UNCHANGED << file, now, racedWrites, intended >>
            /\ UNCHANGED << subVars, sellerVars, sessVars >>

\* _save_storage, first half: write_text opens the file, which empties it
SaveStorageOpen(p) ==
    /\ cpc[p] \in {"save_open", "get_open"}
    /\ file' = [state |-> "truncated", data |-> EmptyStorage]
    /\ cpc' = [cpc EXCEPT ![p] = IF cpc[p] = "save_open" THEN "save_write" ELSE "get_write"]
    /\ UNCHANGED << now, agent_id, storage, ret, opsDone, lastOp, getFound,
                    getTime, removed, overlapped, racedWrites, intended >>
    /\ UNCHANGED << subVars, sellerVars, sessVars >>

\* _save_storage, second half: json.dumps(data) reaches the file; the call returns
SaveStorageWrite(p) ==
    /\ cpc[p] \in {"save_write", "get_write"}
    /\ file' = [state |-> "ok", data |-> storage[p]]
    /\ intended' = [intended EXCEPT ![agent_id[p]] = storage[p][agent_id[p]]]
    /\ racedWrites' = (racedWrites \/ overlapped[p])
    /\ removed' = [removed EXCEPT ![p] = (cpc[p] = "get_write"
                                           /\ ~file'.data[agent_id[p]].present)]
    /\ ret' = [ret EXCEPT ![p] = IF cpc[p] = "get_write"
                                 THEN [kind |-> "None", mandate |-> NoEntry]
                                 ELSE NoReturn]
    /\ cpc' = [cpc EXCEPT ![p] = "idle"]
    /\ opsDone' = [opsDone EXCEPT ![p] = @ + 1]
    /\ storage' = [storage EXCEPT ![p] = EmptyStorage]
    /\ UNCHANGED << now, agent_id, lastOp, getFound, getTime, overlapped >>
    /\ UNCHANGED << subVars, sellerVars, sessVars >>

NextCache ==
    \/ Tick
    \/ \E p \in Procs : SaveMandateLoad(p)
    \/ \E p \in Procs : GetMandateLoad(p)
    \/ \E p \in Procs : SaveStorageOpen(p)
    \/ \E p \in Procs : SaveStorageWrite(p)

(***************************************************************************)
(* PART 4 - THE BUYER'S SESSION: THE TOOLS THE AGENT CALLS                 *)
(*                                                                         *)
(* The agent calls the tools of one script in any order, each call is one  *)
(* step. Three scripts stand for the shapes that exist:                    *)
(*   "2a": examples/2a_api_buyer_agent.py - issue_mandate (with the cache),*)
(*         request_resource, execute_payment;                              *)
(*   "4a": examples/4a_mcp_buyer_agent.py and 5_mcp_buyer_seller.py -      *)
(*         mcp_issue_mandate (no cache), request_resource,                 *)
(*         sign_and_pay_blockchain;                                        *)
(*   "3b": examples/3b_mcp_with_tx_service.py - the mandate tool with the  *)
(*         cache, sign_payment_via_service, mcp_submit_and_verify_payment. *)
(* How a payment signs and broadcasts is PART 1; here a payment tool call  *)
(* is kept by how far it got.                                              *)
(***************************************************************************)

MaxToolCalls == 4

SessionScripts == {"2a", "4a", "3b"}

\* the scripts whose mandate tool calls get_mandate before issuing
UsesCache(sc) == sc \in {"2a", "3b"}

\* the mandate the gateway issues, as the mandate tool stores it
IssuedMandates ==
    { Mandate("tokB", e, 5) : e \in {MaxTime + 1, Null} }

\* what get_mandate(agent_id) does on the cache entry e at time t: it
\* returns None, returns the entry, or raises (None > float is a TypeError)
GetMandate(e, t) ==
    IF ~e.present THEN "None"
    ELSE IF e.expires_at = Null THEN "raised"
    ELSE IF IsExpired(t, e.expires_at) THEN "None"
    ELSE "mandate"

\* faulty test: the cached mandate is never taken
Reuses_Never(r) == FALSE

\* if existing_mandate:
Reuses(r) == r = "mandate"

InitSession ==
    /\ script \in SessionScripts
    /\ current_mandate = NoEntry
    /\ last_payment = "none"
    /\ stored \in {NoEntry} \cup { StoredEntry(d, 0) : d \in MandateData }
    /\ sessNow \in 0..MaxTime
    /\ issued = 0
    /\ transfers = 0
    /\ netCalls = 0
    /\ lastTool = "none"
    /\ toolReturn = "none"
    /\ toolCalls = 0
    /\ svc_hashes = << "none", "none" >>
    /\ submitted = {}

\* a tool is called
ToolCall(name) ==
    /\ toolCalls < MaxToolCalls
    /\ toolCalls' = toolCalls + 1
    /\ lastTool' = name

\* mandates.issue(...) / call_mcp_tool("agentpay_issue_mandate", ...), and
\* what follows it: current_mandate = mandate_with_budget; save_mandate(...)
IssueNew(saves) ==
    /\ issued' = issued + 1
    /\ \/ \E m \in IssuedMandates :
             /\ current_mandate' = m
             /\ stored' = IF saves THEN StoredEntry(m, sessNow)
                          ELSE stored
             /\ toolReturn' = "ok"
       \/ /\ toolReturn' = "error"
          /\ stored' = IF saves /\ GetMandate(stored, sessNow) = "None"
                       THEN NoEntry ELSE stored
          /\ UNCHANGED current_mandate

\* issue_mandate of 2a and 3b (issue_payment_mandate of 1, 1a, 1b, 3a):
\* existing_mandate = get_mandate(agent_id); if existing_mandate: reuse it,
\* else issue a new one; an exception ends the tool with an error string
IssueMandate ==
    /\ UsesCache(script)
    /\ ToolCall("mandate")
    /\ LET r == GetMandate(stored, sessNow)
       IN  IF r = "raised"
           THEN /\ toolReturn' = "error"
                /\ UNCHANGED << current_mandate, stored, issued >>
           ELSE IF Reuses(r)
           THEN /\ current_mandate' = stored
                /\ toolReturn' = "ok"
                /\ UNCHANGED << stored, issued >>
           ELSE IssueNew(TRUE)
    /\ UNCHANGED << script, last_payment, sessNow, transfers,
                    netCalls, svc_hashes, submitted >>
    /\ UNCHANGED << subVars, sellerVars, cacheVars >>

\* mcp_issue_mandate of 4a and 5: the gateway is asked at every call
McpIssueMandate ==
    /\ ~UsesCache(script)
    /\ ToolCall("mandate")
    /\ IssueNew(FALSE)
    /\ UNCHANGED << script, last_payment, sessNow, transfers,
                    netCalls, svc_hashes, submitted >>
    /\ UNCHANGED << subVars, sellerVars, cacheVars >>

\* request_resource: on status 402 self.last_payment = {...}; any other
\* answer or an exception leaves last_payment as it is
RequestResource ==
    /\ script \in {"2a", "4a"}
    /\ ToolCall("request")
    /\ \/ /\ last_payment' = "quote"
          /\ toolReturn' = "ok"
       \/ /\ toolReturn' = "error"
          /\ UNCHANGED last_payment
    /\ UNCHANGED << script, current_mandate, stored, sessNow, issued, transfers,
                    netCalls, svc_hashes, submitted >>
    /\ UNCHANGED << subVars, sellerVars, cacheVars >>

\* how far a payment tool call gets once its first checks have passed
PayOutcomes == {"config_failed", "aborted", "merchant_only", "pair"}

\* the transfers it has broadcast
TransfersOf(o) ==
    IF o = "pair" THEN 2 ELSE IF o = "merchant_only" THEN 1 ELSE 0

\* the network and chain calls it has made: the commission config, the nonce
\* lookup, the broadcasts
NetCallsOf(o) ==
    IF o = "config_failed" THEN 1 ELSE IF o = "aborted" THEN 2
    ELSE IF o = "merchant_only" THEN 3 ELSE 4

\* the first lines of the payment tool: 2a tests last_payment and
\* current_mandate, 4a and 5 test last_payment only
PaymentGuard ==
    IF script = "2a"
    THEN last_payment # "none" /\ current_mandate # NoEntry
    ELSE last_payment # "none"

\* execute_payment of 2a, sign_and_pay_blockchain of 4a and 5
PayTool ==
    /\ script \in {"2a", "4a"}
    /\ ToolCall("pay")
    /\ IF ~PaymentGuard
       THEN /\ toolReturn' = "error"
            /\ netCalls' = 0
            /\ UNCHANGED << last_payment, transfers, stored >>
       ELSE \E o \in PayOutcomes :
              /\ netCalls' = NetCallsOf(o)
              /\ transfers' = transfers + TransfersOf(o)
              /\ last_payment' = IF o = "pair" THEN "paid" ELSE last_payment
              /\ \/ /\ o = "pair"
                    /\ toolReturn' = "ok"
                    /\ \/ UNCHANGED stored
                       \/ /\ script = "2a"
                          /\ stored' = StoredEntry(current_mandate, sessNow)
                 \/ /\ o = "pair" => script = "2a"
                    /\ toolReturn' = "error"
                    /\ UNCHANGED stored
    /\ UNCHANGED << script, current_mandate, sessNow, issued, svc_hashes,
                    submitted >>
    /\ UNCHANGED << subVars, sellerVars, cacheVars >>

\* what the signing service may put under tx_hash / tx_hash_commission:
\* nothing, a string that is not 66 characters starting with 0x, a hash
HashKinds == {"none", "bad", "good"}

\* if len(h) != 66 or not h.startswith('0x'): return error
WellFormedHash(k) == k = "good"

\* sign_payment_via_service of 3b: the globals are assigned from the answer,
\* then tested; a status other than 200 or an exception returns before
SignViaService ==
    /\ script = "3b"
    /\ ToolCall("sign")
    /\ \/ /\ toolReturn' = "error"
          /\ UNCHANGED svc_hashes
       \/ \E m \in HashKinds, c \in HashKinds :
             /\ svc_hashes' = << m, c >>
             /\ toolReturn' = IF m = "none" \/ c = "none" THEN "error"
                              ELSE IF ~WellFormedHash(m) THEN "error"
                              ELSE IF ~WellFormedHash(c) THEN "error"
                              ELSE "ok"
    /\ UNCHANGED << script, current_mandate, last_payment, stored, sessNow,
                    issued, transfers, netCalls, submitted >>
    /\ UNCHANGED << subVars, sellerVars, cacheVars >>

\* mcp_submit_and_verify_payment of 3b: if not current_mandate or not
\* merchant_tx_hash: return error; else the two globals go to the gateway
McpSubmit ==
    /\ script = "3b"
    /\ ToolCall("submit")
    /\ IF current_mandate = NoEntry \/ svc_hashes[1] = "none"
       THEN /\ toolReturn' = "error"
            /\ UNCHANGED submitted
       ELSE /\ submitted' = submitted \cup {svc_hashes}
            /\ toolReturn' \in {"ok", "error"}
    /\ UNCHANGED << script, current_mandate, last_payment, stored, sessNow,
                    issued, transfers, netCalls, svc_hashes >>
    /\ UNCHANGED << subVars, sellerVars, cacheVars >>

NextSession ==
    \/ IssueMandate
    \/ McpIssueMandate
    \/ RequestResource
    \/ PayTool
    \/ SignViaService
    \/ McpSubmit

vars == << subVars, sellerVars, cacheVars, sessVars >>

(* The specifications: each part runs with the other parts at rest.        *)
SubmitterAtRest ==
    /\ InitSubmit
    /\ variant = "fast" /\ chainCount = 0
    /\ iface = "api" /\ thread = "none"
    /\ total_usd = 1 /\ commission_rate = 50 /\ decimals = 6
    /\ recipient.hex /\ recipient.nbytes = 20

SessionAtRest ==
    /\ InitSession
    /\ script = "2a" /\ stored = NoEntry /\ sessNow = 0

InitSpecSubmit == InitSubmit /\ InitSeller /\ InitCache /\ SessionAtRest
InitSpecSeller == InitSeller /\ SubmitterAtRest /\ InitCache /\ SessionAtRest
InitSpecCache == InitCache /\ SubmitterAtRest /\ InitSeller /\ SessionAtRest
InitSpecSession == InitSession /\ SubmitterAtRest /\ InitSeller /\ InitCache

SpecSubmit == InitSpecSubmit /\ [][NextSubmit]_vars

SpecSeller == InitSpecSeller /\ [][NextSeller]_vars

SpecCache == InitSpecCache /\ [][NextCache]_vars

SpecSession == InitSpecSession /\ [][NextSession]_vars

(***************************************************************************)
(* CLAIMS ABOUT THE SUBMITTER                                              *)
(***************************************************************************)

\* total_usd > 0 and commission_rate in [0, 1)
ValidAmountInput ==
    total_usd > 0 /\ commission_rate >= 0 /\ commission_rate < 10000

\* the recipient is a well-formed 20-byte hex address
WellFormedRecipient == recipient.hex /\ recipient.nbytes = 20

\* a payment of a valid amount to a well-formed address
ValidPayment == ValidAmountInput /\ WellFormedRecipient

\* C1: in every variant, with N the sender's account nonce at submission
\* time, the merchant transfer is signed with nonce N and the commission
\* transfer with nonce N + 1.
C1_SequentialNonces ==
    ValidPayment =>
        \A t \in signedTx :
            /\ t.leg = "merchant" => t.nonce = nonceAtSubmit
            /\ t.leg = "commission" => t.nonce = nonceAtSubmit + 1

\* C2: the on-chain nonce is read exactly once per payment, the merchant
\* transfer is broadcast before the commission transfer, and no nonce is
\* obtained after a transfer has been broadcast.
C2_NonceReadOnce ==
    ValidPayment =>
        /\ nonceReads <= 1
        /\ broadcast # << >> => nonceReads = 1
        /\ \A i \in 1..Len(broadcast) :
              broadcast[i].leg = "commission" =>
                  \E j \in 1..(i - 1) : broadcast[j].leg = "merchant"

\* a sign_transaction or send_raw_transaction call of the payment raised
ThrewInSubmission == threw \in SubmitSteps

\* C10: once signing or broadcasting of either transfer has thrown, the tool
\* has ended with an error for its caller, the step that threw was called
\* once only, the hashes are not recorded, and nothing is signed or
\* broadcast any more.
C10_AbortOnThrow ==
    [][ /\ ThrewInSubmission' =>
              /\ pc' = "done"
              /\ result' = "error"
              /\ recorded' = FALSE
              /\ calls'[threw'] = 1
        /\ ThrewInSubmission =>
              /\ broadcast' = broadcast
              /\ signedTx' = signedTx
              /\ calls' = calls
              /\ threw' = threw ]_vars

\* C10 witness: the commission broadcast threw after the merchant transfer
\* had entered the mempool.
C10_Witness ==
    /\ threw = "send_commission"
    /\ Len(broadcast) = 1
    /\ broadcast[1].leg = "merchant"
    /\ pc = "done"

\* the leg's transfer is in a block and did not revert
Succeeded(leg) == leg \in mined /\ leg \notin reverted

\* C11: the submitter neither undoes nor completes a half-done pair: every
\* step keeps what was broadcast, each leg is broadcast at most once, and
\* once the tool has ended nothing more is signed or broadcast, whichever
\* legs succeeded, reverted or were never sent.
C11_NoUndoNoCompletion ==
    [][ /\ Len(broadcast') >= Len(broadcast)
        /\ \A i \in 1..Len(broadcast) : broadcast'[i] = broadcast[i]
        /\ \A i, j \in 1..Len(broadcast') :
              broadcast'[i].leg = broadcast'[j].leg => i = j
        /\ pc = "done" => broadcast' = broadcast /\ signedTx' = signedTx
        /\ pc = "done" => pc' = "done" ]_vars

\* C11 witness: the payment has ended, the commission transfer succeeded
\* and the merchant transfer reverted.
C11_CommissionOnly ==
    /\ pc = "done"
    /\ "merchant" \in reverted
    /\ Succeeded("commission")
    /\ Len(broadcast) = 2

\* C11, the other run: the payment has ended, the merchant transfer
\* succeeded and the commission transfer was never accepted or reverted.
C11_MerchantOnly ==
    /\ pc = "done"
    /\ Succeeded("merchant")
    /\ \/ threw \in {"sign_commission", "send_commission"} /\ Len(broadcast) = 1
       \/ "commission" \in reverted

\* C12: for a commission_rate outside [0,1) or a total_usd <= 0 (and a
\* well-formed recipient) no network call is made (no commission-config
\* fetch, no nonce lookup, no broadcast) and the payment ends with an error.
C12_InvalidAmountRejected ==
    (~ValidAmountInput /\ WellFormedRecipient) =>
        /\ configFetches = 0
        /\ nonceReads = 0
        /\ broadcast = << >>
        /\ pc = "done" => result = "error"

\* the amounts have just been split
SplitDone == pc = "read_nonce"

\* total_usd x 10^decimals, an integer for the decimals of this model
TotalAtomic == total_usd * Pow10(decimals - 2)

\* C16: for valid inputs merchant_atomic + commission_atomic is within one
\* atomic unit of floor(total_usd x 10^decimals).
C16_SumWithinOne ==
    (SplitDone /\ ValidAmountInput) =>
        /\ merchant_atomic + commission_atomic - TotalAtomic <= 1
        /\ TotalAtomic - (merchant_atomic + commission_atomic) <= 1

\* C17: merchant_atomic + commission_atomic equals
\* round(total_amount_usd x 10^token_decimals).
C17_SumIsTotal ==
    (SplitDone /\ ValidAmountInput) =>
        merchant_atomic + commission_atomic = TotalAtomic

\* the exact value of usd x 10^decimals lies in [atomic, atomic + 2): the
\* leg is the floor of its amount, up to the last bit of the floating
\* point product
FloorOf(atomic, usd) ==
    LET scale == Pow10(6 - decimals)
    IN  /\ atomic >= 0
        /\ atomic * scale <= usd
        /\ usd < (atomic + 2) * scale

C19_InvalidAddressRejected ==
    (~WellFormedRecipient /\ ValidAmountInput) =>
        /\ \A pl \in payloads : pl.leg # "merchant"
        /\ signedTx = {}
        /\ broadcast = << >>

\* C21: for a total above zero and a rate of at least 0 and below 1, the
\* two atomic amounts the split assigns are never negative.
C21_AmountsNotNegative ==
    (total_usd > 0 /\ commission_rate >= 0 /\ commission_rate < 10000) =>
        (merchant_atomic >= 0 /\ commission_atomic >= 0)

\* C21 witness: the split of a positive total at rate 0.5 has been made;
\* each leg gets an amount above zero.
C21_Witness ==
    /\ pc = "read_nonce"
    /\ total_usd = 9 /\ commission_rate = 5000 /\ decimals = 6
    /\ merchant_atomic > 0 /\ commission_atomic > 0

\* the gateway's answer is a failure in the words of the interface
\* contract: its status is not 2xx or its JSON body has an `error` field
FailureResponse(r) ==
    /\ r.kind = "response"
    /\ r.status < 200 \/ r.status > 299 \/ r.has_error

\* C13: when the gateway's answer has a non-2xx status or an `error` field
\* in its body, the payment tool does not report success and does not update
\* the cached mandate's budget.
C13_FailureNeverSuccess ==
    (ValidPayment /\ pc = "done" /\ outcome # "none" /\ FailureResponse(gwResponse)) =>
        /\ outcome = "failure"
        /\ result = "error"
        /\ ~budgetUpdated

\* C14: a payment that started a background thread has joined it, with a
\* timeout, by the time the main flow gives the payment's result back.
C14_JoinBeforeReport ==
    (ValidPayment /\ threadState # "not_started" /\ result # "none") =>
        joined \in {"joined", "timed_out"}

(***************************************************************************)
(* CLAIMS ABOUT THE SELLER AND ITS POLLER                                  *)
(***************************************************************************)

\* the request passed the resource and header checks and reached the poller
Polled == EarlyStatus(resource_id, payment_header) = 0

SellerBudgetInv ==
    /\ attemptsMade <= max_retries
    /\ Polled => max_retries = (IF price_usd(resource_id) < OneDollar THEN 6 ELSE 12)
    /\ spc = "polling" => attemptsMade = attempt /\ attempt < max_retries
    /\ (spc = "done" /\ Polled /\ verifiedFor = "none") =>
           httpStatus = 403 /\ pollState = "failed"

\* C3: the poller makes at most max_retries verification calls (6 under $1,
\* 12 otherwise), every step it takes while polling uses up one of them, and
\* a request none of whose calls reported verified ends with 403.
C3_BoundedPolling ==
    [][ /\ SellerBudgetInv'
        /\ spc = "polling" => attemptsMade' = attemptsMade + 1 ]_vars

\* C3 witness: every call of a sub-dollar request raised or was not verified,
\* and the request ended with 403 after six calls.
C3_Witness ==
    /\ spc = "done" /\ httpStatus = 403
    /\ max_retries = 6 /\ attemptsMade = 6
    /\ lastKind = "exception"

\* the paid amount is within $0.01 of price x (1 - commission rate)
WithinTolerance(rid, v) ==
    Abs(paid_amount(v) - expected_merchant_amount(rid)) <= Tolerance

TerminalAnswer(v) ==
    /\ v.present /\ ~v.verified
    /\ v.status # "pending"
    /\ v.error # "Payment not found"

\* C7: when the verifier's answer is a terminal error the loop is left at
\* that attempt, the poller is failed and the request ends with 403.
C7_TerminalErrorFails ==
    (lastKind = "response" /\ TerminalAnswer(verification)) =>
        /\ spc \in {"postloop", "done"}
        /\ pollState = "failed"
        /\ attemptsMade = attempt + 1
        /\ spc = "done" => httpStatus = 403

\* C7 witness: a terminal error on the first attempt, eleven attempts unused.
C7_Witness ==
    /\ lastKind = "response" /\ TerminalAnswer(verification)
    /\ attemptsMade = 1 /\ max_retries = 12
    /\ spc = "done"

\* C8: when the verifier's answer says verified the loop is left at that
\* attempt and the poller is confirmed, whatever the status of the answer.
C8_VerifiedConfirms ==
    (lastKind = "response" /\ verification.verified) =>
        /\ spc \in {"postloop", "done"}
        /\ pollState = "confirmed"
        /\ attemptsMade = attempt + 1

\* C8 witness: verified with status 'pending' on the second attempt.
C8_Witness ==
    /\ lastKind = "response" /\ verification.verified
    /\ verification.status = "pending"
    /\ attemptsMade = 2 /\ pollState = "confirmed"

\* C9: with max_retries = 6, after five 'Payment not found' answers the
\* poller has slept five times 10 s and is about to make the sixth call; a
\* verified, confirmed answer to that call makes it confirmed, 50 s slept.
C9_SixthAttemptConfirms ==
    max_retries = 6 =>
        /\ (attemptsMade = 5 /\ notFoundAnswers = 5) =>
              spc = "polling" /\ waits = 5 /\ elapsed = 50
        /\ (attemptsMade = 6 /\ notFoundAnswers = 5 /\ lastKind = "response"
              /\ verification.verified /\ verification.status = "confirmed") =>
              pollState = "confirmed" /\ waits = 5 /\ elapsed = 50

\* C9 witness: the scenario's run has happened.
C9_Witness ==
    /\ max_retries = 6 /\ attemptsMade = 6 /\ notFoundAnswers = 5
    /\ lastKind = "response" /\ verification.verified
    /\ verification.status = "confirmed"
    /\ pollState = "confirmed"

\* the request was for a resource under $1, every one of its verification
\* calls failed, all max_retries calls were made and failure was reported
ExhaustedSmallPayment ==
    /\ spc = "done"
    /\ resource_id \in Catalog
    /\ price_usd(resource_id) < OneDollar
    /\ Polled
    /\ attemptsMade = 6
    /\ pollState = "failed"

\* C15: for a payment under $1 whose verification never succeeds, the six
\* attempts at 10-second intervals span about 90 seconds (here: between 80
\* and 100 seconds of time.sleep) before failure is reported.
C15_SmallPaymentNinetySeconds ==
    ExhaustedSmallPayment => (elapsed >= 80 /\ elapsed <= 100)

\* C25: over any sequence of requests, at most one request presenting a
\* given merchant hash (here 0xaa) is answered with 200.
C25_NoSecondDelivery ==
    deliveries <= 1

\* C28: when the handling of a request of claim_resource ends with 200, the
\* claim_resource call reports the resource as received: its 30-second
\* timeout has not expired during the retry loop.
C28_ClaimReceivesDelivery ==
    (spc = "done" /\ httpStatus = 200 /\ claim # "none") => claim = "received"

\* C26: for every resource of the catalog, a request whose last verifier
\* answer is verified but reports a paid amount of zero, or carries no
\* amount_usd, is not answered with 200.
C26_NoDeliveryForZeroPaid ==
    (/\ spc = "done" /\ Polled
     /\ resource_id \in Catalog
     /\ verification.present /\ verification.verified
     /\ ~verification.has_amount \/ verification.amount_usd = 0) =>
        httpStatus # 200

(***************************************************************************)
(* CLAIMS ABOUT THE MANDATE CACHE                                          *)
(***************************************************************************)

\* the last get_mandate of p has returned and had found an entry whose
\* expires_at was earlier than the time of the call
FoundExpired(p) ==
    /\ lastOp[p] = "get" /\ cpc[p] = "idle"
    /\ getFound[p].present
    /\ getFound[p].expires_at # Null
    /\ getFound[p].expires_at < getTime[p]

\* C4: a get_mandate that finds an entry with expires_at in the past
\* returns None and writes the file without that entry; no get_mandate
\* returns a mandate whose expires_at is earlier than the time of the call.
C4_ExpiredNotReturned ==
    \A p \in Procs :
        /\ FoundExpired(p) => ret[p].kind = "None" /\ removed[p]
        /\ ret[p].kind = "mandate" => ~(ret[p].mandate.expires_at < getTime[p])

\* C4 witness: an expired entry was found, None returned, and the file that
\* get_mandate left has no entry for the agent.
C4_Witness ==
    \E p \in Procs :
        /\ FoundExpired(p)
        /\ ret[p].kind = "None"
        /\ file.state = "ok"
        /\ ~file.data[agent_id[p]].present
        /\ \A q \in Procs : cpc[q] = "idle"

\* C5: the cache is not safe for simultaneous writers. The file differs
\* from what the completed calls should have left only after a call that
\* overlapped another one has written it (theorem), and two overlapping
\* save_mandate calls for different agents do lose an entry (witness).
C5_LossOnlyByRace ==
    (file.state = "ok" /\ file.data # intended) => racedWrites

\* C5 witness: two processes have each completed one save_mandate, for two
\* different agents, and the file lacks one of the two entries.
C5_LostUpdate ==
    /\ \A p \in Procs : cpc[p] = "idle"
    /\ opsDone[1] = 1 /\ opsDone[2] = 1
    /\ lastOp[1] = "save" /\ lastOp[2] = "save"
    /\ agent_id[1] # agent_id[2]
    /\ file.state = "ok"
    /\ \E p \in {1, 2} : ~file.data[agent_id[p]].present

\* p's save_mandate call returns with this step
SaveReturns(p) == cpc[p] = "save_write" /\ cpc'[p] = "idle"

\* C18: when a save_mandate call that ran alone (as every call that wrote
\* before it) returns, the file holds under its agent_id the entry the call
\* built, which is a present one and the only one of that agent, and under
\* every other agent_id the entry that agent's last save or removal left.
C18_SaveOverwritesOwnOnly ==
    [][ \A p \in Procs :
          (SaveReturns(p) /\ ~racedWrites') =>
              /\ file'.state = "ok"
              /\ file'.data[agent_id[p]] = storage[p][agent_id[p]]
              /\ file'.data[agent_id[p]].present
              /\ intended'[agent_id[p]] = file'.data[agent_id[p]]
              /\ \A b \in Agents \ {agent_id[p]} :
                    /\ file'.data[b] = intended[b]
                    /\ intended'[b] = intended[b] ]_vars

\* C18 witness: agent-2's mandate was saved by a call that ran alone while
\* agent-1 had an entry, and both entries are in the file.
C18_Witness ==
    /\ \E p \in Procs : lastOp[p] = "save" /\ agent_id[p] = "agent-2"
                          /\ cpc[p] = "idle" /\ opsDone[p] > 0
    /\ ~racedWrites
    /\ file.state = "ok"
    /\ file.data["agent-1"].present
    /\ file.data["agent-2"].present
    /\ file.data["agent-1"] = intended["agent-1"]

\* C18, overwriting: agent-1's mandate was saved twice by calls that ran
\* alone, and the file holds the second entry only.
C18_Overwritten ==
    /\ \A p \in Procs : cpc[p] = "idle"
    /\ CallsStarted = 2
    /\ \A p \in Procs : opsDone[p] > 0 => lastOp[p] = "save" /\ agent_id[p] = "agent-1"
    /\ ~racedWrites
    /\ file.state = "ok"
    /\ file.data["agent-1"].mandate_token = "tokB"
    /\ ~file.data["agent-2"].present

\* C29: a mandate that get_mandate returns carries the mandate_token,
\* expires_at, budget_remaining and purpose of a mandate_data that was handed
\* to save_mandate, unchanged (also when budget_remaining is 0).
C29_RoundTrip ==
    \A p \in Procs :
        (ret[p].kind = "mandate" /\ ~racedWrites) =>
            /\ \E d \in MandateData :
                  /\ ret[p].mandate.mandate_token = d.mandate_token
                  /\ ret[p].mandate.expires_at = d.expires_at
                  /\ ret[p].mandate.budget_remaining = d.budget_remaining
            /\ "purpose" \in DOMAIN ret[p].mandate

\* C30: no call of get_mandate ends by raising.
C30_GetNeverRaises ==
    \A p \in Procs : ret[p].kind # "raised"

(***************************************************************************)
(* CLAIMS ABOUT THE BUYER'S SESSION                                        *)
(***************************************************************************)

\* this step is a call of the named tool
Called(name) == toolCalls' = toolCalls + 1 /\ lastTool' = name

\* C22: a call of the payment tool made while no quote is stored or no
\* mandate has been issued returns an error, makes no network or chain call
\* and broadcasts nothing.
C22_PaymentNeedsQuoteAndMandate ==
    [][ (Called("pay") /\ (last_payment = "none" \/ current_mandate = NoEntry)) =>
            /\ toolReturn' = "error"
            /\ netCalls' = 0
            /\ transfers' = transfers ]_vars

C23_IssuedAfterExpiry ==
    /\ UsesCache(script)
    /\ lastTool = "mandate" /\ toolReturn = "ok"
    /\ issued = 1
    /\ stored.present /\ stored.mandate_token = "tokB" /\ stored.saved_at = sessNow
    /\ sessNow = 1

\* C24: every pair of hashes sent to the gateway's submit tool is a pair the
\* signing tool accepted: both present, 66 characters long and 0x-prefixed.
C24_OnlyValidatedHashesSubmitted ==
    \A pr \in submitted : WellFormedHash(pr[1]) /\ WellFormedHash(pr[2])

\* C27: once the payment tool has broadcast the pair for the stored quote
\* (last_payment holds the hashes), a further call of the payment tool
\* without a new quote broadcasts nothing.
C27_OnePairPerQuote ==
    [][ (Called("pay") /\ last_payment = "paid") => transfers' = transfers ]_vars

====
